---- MODULE Spec2Model ----
(***************************************************************************)
(* Model of backend/main.py (Stock Analyzer API): the request handler      *)
(* get_stock_data, the indicator engine (calculate_rsi, calculate_vwap,    *)
(* calculate_indicators) and the response builder (prepare_response).      *)
(*                                                                         *)
(* Numbers.  pandas computes in IEEE doubles.  A float is modelled as a    *)
(* pair <<n, d>>: d > 0 is the exact rational n/d in lowest terms, and     *)
(* d = 0 is one of the three non-finite doubles NaN = <<0,0>>,             *)
(* +inf = <<1,0>>, -inf = <<-1,0>>.  Rounding error is not modelled: the   *)
(* arithmetic is exact.  Prices and volumes are integers (ticks, shares).  *)
(* Sequences are 1-based: position i of the code is index i+1 here.        *)
(***************************************************************************)
EXTENDS Integers, Sequences, FiniteSets, TLC

VARIABLES pc, ticker, period, df, stock_info, result, log

vars == <<pc, ticker, period, df, stock_info, result, log>>

----------------------------------------------------------------------------
(* Program constants *)

MA_SHORT_WINDOW == 50
MA_LONG_WINDOW == 200
RSI_PERIODS == 14
RSI_OVERBOUGHT == 70
RSI_OVERSOLD == 30
STATUS_NOT_FOUND == 404
STATUS_SERVER_ERROR == 500

TimePeriod == {"7d", "1mo", "6mo", "2y", "5y", "10y"}

----------------------------------------------------------------------------
(* Bounds of the model *)

\* free series: every sequence of bars up to this length
MaxFreeLen == 2
\* closes of a free series range over 1..MaxPrice
MaxPrice == 2
\* volumes of a free series range over 0..MaxVol
MaxVol == 1

----------------------------------------------------------------------------
(* IEEE-like arithmetic on <<n, d>> *)

NaN == <<0, 0>>
Zero == <<0, 1>>

Abs(x) == IF x < 0 THEN -x ELSE x
Sgn(x) == IF x > 0 THEN 1 ELSE IF x < 0 THEN -1 ELSE 0

RECURSIVE GCD(_, _)
GCD(a, b) == IF b = 0 THEN a ELSE GCD(b, a % b)

Norm(n, d) ==
  IF d = 1 THEN <<n, 1>>
  ELSE LET g == GCD(Abs(n), d) IN <<n \div g, d \div g>>

ToF(k) == <<k, 1>>
IsNaN(x) == x = NaN
IsFinite(x) == x[2] > 0

FNeg(a) == <<-a[1], a[2]>>

FAdd(a, b) ==
  IF IsNaN(a) \/ IsNaN(b) THEN NaN
  ELSE IF ~IsFinite(a) THEN (IF ~IsFinite(b) /\ a # b THEN NaN ELSE a)
  ELSE IF ~IsFinite(b) THEN b
  ELSE IF a[2] = b[2] THEN Norm(a[1] + b[1], a[2])
  ELSE Norm(a[1] * b[2] + b[1] * a[2], a[2] * b[2])

FSub(a, b) == FAdd(a, FNeg(b))

FMul(a, b) ==
  IF IsNaN(a) \/ IsNaN(b) THEN NaN
  ELSE IF ~IsFinite(a) \/ ~IsFinite(b)
       THEN (IF a[1] = 0 \/ b[1] = 0 THEN NaN ELSE <<Sgn(a[1]) * Sgn(b[1]), 0>>)
  ELSE Norm(a[1] * b[1], a[2] * b[2])

\* numpy float division: x/0 is +-inf, 0/0 is nan, no exception
FDiv(a, b) ==
  IF IsNaN(a) \/ IsNaN(b) THEN NaN
  ELSE IF ~IsFinite(a) THEN (IF ~IsFinite(b) THEN NaN
                             ELSE <<a[1] * (IF b[1] < 0 THEN -1 ELSE 1), 0>>)
  ELSE IF ~IsFinite(b) THEN Zero
  ELSE IF b[1] = 0 THEN <<Sgn(a[1]), 0>>
  ELSE Norm(a[1] * b[2] * Sgn(b[1]), a[2] * Abs(b[1]))

\* comparisons with nan are False
FGt(a, b) ==
  /\ ~IsNaN(a) /\ ~IsNaN(b)
  /\ IF ~IsFinite(a) /\ ~IsFinite(b) THEN a[1] > b[1]
     ELSE a[1] * b[2] > b[1] * a[2]

FLt(a, b) == FGt(b, a)

----------------------------------------------------------------------------
(* pandas Series operations *)

\* Series.diff(): first position has no prior and is NaN
diff(data) ==
  [i \in 1..Len(data) |-> IF i = 1 THEN NaN ELSE FSub(data[i], data[i - 1])]

\* Running sums of xs[lo..hi] and their total, by halves: the right half's
\* sums are those of the right half alone shifted by the left half's total.
RECURSIVE prefix_sums(_, _, _)
prefix_sums(xs, lo, hi) ==
  IF lo > hi THEN [total |-> Zero, out |-> <<>>]
  ELSE IF lo = hi THEN [total |-> xs[lo], out |-> <<xs[lo]>>]
  ELSE LET mid == (lo + hi) \div 2
           left == prefix_sums(xs, lo, mid)
           right == prefix_sums(xs, mid + 1, hi)
       IN [total |-> FAdd(left.total, right.total),
           out |-> left.out \o
                   [j \in 1..(hi - mid) |-> FAdd(left.total, right.out[j])]]

\* Series.cumsum(): running sum; a NaN position is skipped and stays NaN
cumsum(xs) ==
  LET run == prefix_sums([i \in 1..Len(xs) |-> IF IsNaN(xs[i]) THEN Zero ELSE xs[i]],
                         1, Len(xs)).out
  IN [i \in 1..Len(xs) |-> IF IsNaN(xs[i]) THEN NaN ELSE run[i]]

\* Series.rolling(window, min_periods).mean(): a sliding window over the
\* last `window` positions keeps the sum and the number of its non-NaN
\* observations (an entering value is added, a leaving one removed); the
\* result is sum/nobs, or NaN where nobs < min_periods.
rolling_mean(xs, window, min_periods) ==
  LET n == Len(xs)
      sums == prefix_sums([i \in 1..n |-> IF IsNaN(xs[i]) THEN Zero ELSE xs[i]],
                          1, n).out
      counts == prefix_sums([i \in 1..n |-> IF IsNaN(xs[i]) THEN Zero ELSE ToF(1)],
                            1, n).out
  IN [i \in 1..n |->
        LET sum_x == IF i > window THEN FSub(sums[i], sums[i - window]) ELSE sums[i]
            nobs == IF i > window THEN counts[i][1] - counts[i - window][1]
                    ELSE counts[i][1]
        IN IF nobs >= min_periods /\ nobs > 0 THEN FDiv(sum_x, ToF(nobs)) ELSE NaN]

----------------------------------------------------------------------------
(* Indicator engine *)

\* gains = delta.where(delta > 0, 0)
gains_of(delta) ==
  [i \in 1..Len(delta) |-> IF FGt(delta[i], Zero) THEN delta[i] ELSE Zero]

\* losses = -delta.where(delta < 0, 0)
losses_of(delta) ==
  [i \in 1..Len(delta) |-> FNeg(IF FLt(delta[i], Zero) THEN delta[i] ELSE Zero)]

avg_gains_of(data, periods) == rolling_mean(gains_of(diff(data)), periods, periods)
avg_losses_of(data, periods) == rolling_mean(losses_of(diff(data)), periods, periods)

\* mutant: the 1 of the denominator dropped
rsi_of_rs_no_one(rs) == FSub(ToF(100), FDiv(ToF(100), rs))

\* rsi = 100 - (100 / (1 + rs))
rsi_of_rs(rs) == FSub(ToF(100), FDiv(ToF(100), FAdd(ToF(1), rs)))

\* mutant: the undefined leading positions dropped from the result
calculate_rsi_dropna(data, periods) ==
  LET avg_gains == avg_gains_of(data, periods)
      avg_losses == avg_losses_of(data, periods)
  IN SelectSeq([i \in 1..Len(data) |-> rsi_of_rs(FDiv(avg_gains[i], avg_losses[i]))],
               LAMBDA x : ~IsNaN(x))

calculate_rsi(data, periods) ==
  LET avg_gains == avg_gains_of(data, periods)
      avg_losses == avg_losses_of(data, periods)
  IN [i \in 1..Len(data) |-> rsi_of_rs(FDiv(avg_gains[i], avg_losses[i]))]

\* mutant: min_periods left at its default, the window
moving_average_full_window(close, window) == rolling_mean(close, window, window)

\* df['Close'].rolling(window=W, min_periods=1).mean()
moving_average(close, window) == rolling_mean(close, window, 1)

\* mutant: the 200-period average without min_periods=1
ma_long_strict(close) == rolling_mean(close, MA_LONG_WINDOW, MA_LONG_WINDOW)

ma_short(close) == moving_average(close, MA_SHORT_WINDOW)
ma_long(close) == moving_average(close, MA_LONG_WINDOW)

\* A DataFrame: its index, the kind of the index, and its columns by name
HasCols(d, names) == names \subseteq DOMAIN d.cols
SetCol(d, name, values) ==
  [d EXCEPT !.cols = (name :> values) @@ d.cols]
NRows(d) == Len(d.index)

Returned(v) == [raised |-> FALSE, value |-> v]
Raised(t) == [raised |-> TRUE, exc |-> [type |-> t]]

\* mutant: the close alone as typical price
calculate_vwap_close_only(d) ==
  IF ~HasCols(d, {"High", "Low", "Close", "Volume"}) THEN Raised("KeyError")
  ELSE LET volume == [i \in 1..NRows(d) |-> ToF(d.cols["Volume"][i])]
           pv == [i \in 1..NRows(d) |-> FMul(d.cols["Close"][i], volume[i])]
           num == cumsum(pv)
           den == cumsum(volume)
       IN Returned([i \in 1..NRows(d) |-> FDiv(num[i], den[i])])

calculate_vwap(d) ==
  IF ~HasCols(d, {"High", "Low", "Close", "Volume"}) THEN Raised("KeyError")
  ELSE LET typical_price ==
             [i \in 1..NRows(d) |->
                FDiv(FAdd(FAdd(d.cols["High"][i], d.cols["Low"][i]),
                          d.cols["Close"][i]), ToF(3))]
           volume == [i \in 1..NRows(d) |-> ToF(d.cols["Volume"][i])]
           pv == [i \in 1..NRows(d) |-> FMul(typical_price[i], volume[i])]
           num == cumsum(pv)
           den == cumsum(volume)
       IN Returned([i \in 1..NRows(d) |-> FDiv(num[i], den[i])])

calculate_indicators(d) ==
  IF ~HasCols(d, {"Close"}) THEN Raised("KeyError")
  ELSE LET d1 == SetCol(d, "50_MA", ma_short(d.cols["Close"]))
           d2 == SetCol(d1, "200_MA", ma_long(d.cols["Close"]))
           d3 == SetCol(d2, "RSI", calculate_rsi(d.cols["Close"], RSI_PERIODS))
           vwap == calculate_vwap(d3)
       IN IF vwap.raised THEN vwap
          \* the sample print reads .iloc[-1] of every column
          ELSE IF NRows(d) = 0 THEN Raised("IndexError")
          ELSE Returned(SetCol(d3, "VWAP", vwap.value))

----------------------------------------------------------------------------
(* Response builder *)

\* Timestamp.strftime('%Y-%m-%d') of a day counted from 2024-01-01
MonthDays == <<31, 29, 31, 30, 31, 30, 31, 31, 30, 31, 30, 31>>

RECURSIVE month_day(_, _)
month_day(m, rest) ==
  IF rest < MonthDays[m] THEN <<2024, m, rest + 1>>
  ELSE month_day(m + 1, rest - MonthDays[m])

strftime(day) == month_day(1, day)

\* dict.get(key, default)
Get(dict, key, default) == IF key \in DOMAIN dict THEN dict[key] ELSE default

Last(xs) == xs[Len(xs)]

\* mutant: >= for >
is_golden_cross_or_equal(latest_50ma, latest_200ma) ==
  FGt(latest_50ma, latest_200ma) \/ latest_50ma = latest_200ma

\* "is_golden_cross": latest_50ma > latest_200ma
is_golden_cross(latest_50ma, latest_200ma) == FGt(latest_50ma, latest_200ma)

prepare_response(d, info) ==
  IF ~HasCols(d, {"Close", "50_MA", "200_MA", "RSI", "VWAP"}) THEN Raised("KeyError")
  ELSE IF NRows(d) = 0 THEN Raised("IndexError")
  ELSE IF d.index_type # "DatetimeIndex" THEN Raised("AttributeError")
  ELSE IF ~HasCols(d, {"Volume"}) THEN Raised("KeyError")
  ELSE
    LET latest_price == Last(d.cols["Close"])
        latest_50ma == Last(d.cols["50_MA"])
        latest_200ma == Last(d.cols["200_MA"])
        latest_rsi == Last(d.cols["RSI"])
        latest_vwap == Last(d.cols["VWAP"])
    IN Returned(
      [metadata |->
         [ticker |-> Get(info, "symbol", ""),
          company_name |-> Get(info, "longName", ""),
          sector |-> Get(info, "sector", "N/A"),
          industry |-> Get(info, "industry", "N/A"),
          data_points |-> NRows(d),
          start_date |-> strftime(d.index[1]),
          end_date |-> strftime(Last(d.index))],
       timeseries |->
         [dates |-> [i \in 1..NRows(d) |-> strftime(d.index[i])],
          price |-> d.cols["Close"],
          volume |-> d.cols["Volume"],
          fifty_ma |-> d.cols["50_MA"],
          twohundred_ma |-> d.cols["200_MA"],
          rsi |-> d.cols["RSI"],
          vwap |-> d.cols["VWAP"]],
       analysis |->
         [moving_averages |->
            [latest_price |-> latest_price,
             latest_50ma |-> latest_50ma,
             latest_200ma |-> latest_200ma,
             is_golden_cross |-> is_golden_cross(latest_50ma, latest_200ma),
             price_above_50ma |-> FGt(latest_price, latest_50ma),
             price_above_200ma |-> FGt(latest_price, latest_200ma)],
          rsi |->
            [current_rsi |-> latest_rsi,
             is_overbought |-> FGt(latest_rsi, ToF(RSI_OVERBOUGHT)),
             is_oversold |-> FLt(latest_rsi, ToF(RSI_OVERSOLD))],
          vwap |->
            [current_vwap |-> latest_vwap,
             price_above_vwap |-> FGt(latest_price, latest_vwap)]]])

----------------------------------------------------------------------------
(* What the fetcher (yfinance) can hand back *)

Tickers == {"AAPL", "MSFT"}

\* first close of a pattern series
PatternBase == 10

Bars == [close : 1..MaxPrice, volume : 0..MaxVol]

\* the frame of daily bars with the given closes and volumes; the index is
\* consecutive days, High/Low bracket Close
MakeFrame(closes, volumes) ==
  LET n == Len(closes) IN
  [index_type |-> "DatetimeIndex",
   index |-> [i \in 1..n |-> i - 1],
   cols |-> [Open |-> [i \in 1..n |-> ToF(closes[i])],
             High |-> [i \in 1..n |-> ToF(closes[i] + 2)],
             Low |-> [i \in 1..n |-> ToF(closes[i] - 1)],
             Close |-> [i \in 1..n |-> ToF(closes[i])],
             Volume |-> volumes]]

EmptyFrame == MakeFrame(<<>>, <<>>)

FreeFrames ==
  {MakeFrame([i \in 1..Len(bs) |-> bs[i].close], [i \in 1..Len(bs) |-> bs[i].volume]) :
     bs \in UNION {[1..n -> Bars] : n \in 1..MaxFreeLen}}

PatternLens ==
  {RSI_PERIODS - 1, RSI_PERIODS, RSI_PERIODS + 1,
   MA_SHORT_WINDOW, MA_SHORT_WINDOW + 1, MA_LONG_WINDOW + 1}
PatternShapes == {"flat", "up", "down", "zig", "quad"}
VolumeShapes == {"zero", "cycle", "ramp"}

PatternClose(shape, n) ==
  [i \in 1..n |->
     CASE shape = "flat" -> PatternBase
       [] shape = "up" -> PatternBase + i
       [] shape = "down" -> PatternBase + n - i
       [] shape = "zig" -> PatternBase + (i % (MaxPrice + 1))
       [] shape = "quad" -> PatternBase + ((i * i) % 7)]

PatternVolume(shape, n) ==
  [i \in 1..n |->
     CASE shape = "zero" -> 0
       [] shape = "cycle" -> (i - 1) % (MaxVol + 1)
       [] shape = "ramp" -> 1 + (i % 3)]

PatternFrames ==
  {MakeFrame(PatternClose(s, n), PatternVolume(v, n)) :
     s \in PatternShapes, v \in VolumeShapes, n \in PatternLens}

\* frames a well-behaved fetcher does not produce: a column missing, or an
\* index that is not a DatetimeIndex
DropCol(d, name) ==
  [d EXCEPT !.cols = [c \in (DOMAIN d.cols) \ {name} |-> d.cols[c]]]
NoVolumeFrame == DropCol(MakeFrame(<<1, 2>>, <<1, 1>>), "Volume")
RangeIndexFrame == [MakeFrame(<<1, 2>>, <<1, 1>>) EXCEPT !.index_type = "RangeIndex"]
MalformedFrames == {NoVolumeFrame, RangeIndexFrame}

WellFormed(d) ==
  /\ d.index_type = "DatetimeIndex"
  /\ HasCols(d, {"High", "Low", "Close", "Volume"})

\* DataFrame.empty: some axis has length 0
Empty(d) == NRows(d) = 0 \/ DOMAIN d.cols = {}

HistoryFrames == {EmptyFrame} \cup FreeFrames \cup MalformedFrames

InfoResults(t) ==
  {[symbol |-> t, longName |-> "Company", sector |-> "Technology",
    industry |-> "Software"],
   [symbol |-> t, longName |-> "Company"]}

----------------------------------------------------------------------------
(* GET /api/stock/{ticker}: get_stock_data, one action per step *)

NoFrame == [index_type |-> "none", index |-> <<>>, cols |-> <<>>]
NoInfo == <<>>
NoResult == [kind |-> "none"]

HTTPException(status, detail) ==
  [type |-> "HTTPException", status_code |-> status, detail |-> detail]

\* mutant: no `except HTTPException` clause, everything becomes a 500
get_stock_data_except_all(exc) ==
  HTTPException(STATUS_SERVER_ERROR, <<"Error processing request", exc.type>>)

\* mutant: no `except Exception` clause, the error escapes as it is
get_stock_data_except_none(exc) == exc

\* except HTTPException as he: raise he
\* except Exception as e: raise HTTPException(status_code=500, ...)
get_stock_data_except(exc) ==
  IF exc.type = "HTTPException" THEN exc
  ELSE HTTPException(STATUS_SERVER_ERROR, <<"Error processing request", exc.type>>)

\* mutant: the fallback record forgets the ticker
info_fallback_empty(t) == [k \in {} |-> ""]

\* stock_info = {"symbol": ticker}
info_fallback(t) == [symbol |-> t]

Call(name, raised) == [call |-> name, raised |-> raised]

\* the request ends by raising exc inside the try block
EndRaising(exc) ==
  /\ result' = [kind |-> "error", exc |-> get_stock_data_except(exc)]
  /\ pc' = "done"

Init ==
  /\ pc = "idle"
  /\ ticker = ""
  /\ period = "1mo"
  /\ df = NoFrame
  /\ stock_info = NoInfo
  /\ result = NoResult
  /\ log = <<>>

\* a request arrives; nothing is kept from the one before
Request(t, p) ==
  /\ pc \in {"idle", "done"}
  /\ ticker' = t
  /\ period' = p
  /\ df' = NoFrame
  /\ stock_info' = NoInfo
  /\ result' = NoResult
  /\ log' = <<>>
  /\ pc' = "history"

\* stock.history(...) raises
HistoryRaises ==
  /\ pc = "history"
  /\ log' = Append(log, Call("history", TRUE))
  /\ EndRaising([type |-> "Exception"])
  /\ UNCHANGED <<ticker, period, df, stock_info>>

\* df = stock.history(period=period.value, interval="1d")
HistoryReturns(d) ==
  /\ pc = "history"
  /\ df' = d
  /\ log' = Append(log, Call("history", FALSE))
  /\ pc' = "check_empty"
  /\ UNCHANGED <<ticker, period, stock_info, result>>

\* if df.empty: raise HTTPException(404)
CheckEmpty ==
  /\ pc = "check_empty"
  /\ IF Empty(df)
     THEN EndRaising(HTTPException(STATUS_NOT_FOUND, <<"No data found for ticker", ticker>>))
     ELSE pc' = "info" /\ UNCHANGED result
  /\ UNCHANGED <<ticker, period, df, stock_info, log>>

\* stock_info = stock.info
InfoReturns(info) ==
  /\ pc = "info"
  /\ stock_info' = info
  /\ log' = Append(log, Call("info", FALSE))
  /\ pc' = "calc"
  /\ UNCHANGED <<ticker, period, df, result>>

\* stock.info raises: bare except, fall back to the ticker alone
InfoRaises ==
  /\ pc = "info"
  /\ stock_info' = info_fallback(ticker)
  /\ log' = Append(log, Call("info", TRUE))
  /\ pc' = "calc"
  /\ UNCHANGED <<ticker, period, df, result>>

\* df = calculate_indicators(df)
CalculateIndicators ==
  /\ pc = "calc"
  /\ \E r \in {calculate_indicators(df)} :
       /\ log' = Append(log, Call("calculate_indicators", r.raised))
       /\ IF r.raised
          THEN EndRaising(r.exc) /\ UNCHANGED df
          ELSE df' = r.value /\ pc' = "prepare" /\ UNCHANGED result
  /\ UNCHANGED <<ticker, period, stock_info>>

\* response_data = prepare_response(df, stock_info); return response_data
PrepareResponse ==
  /\ pc = "prepare"
  /\ \E r \in {prepare_response(df, stock_info)} :
       /\ log' = Append(log, Call("prepare_response", r.raised))
       /\ IF r.raised
          THEN EndRaising(r.exc)
          ELSE result' = [kind |-> "response", body |-> r.value] /\ pc' = "done"
  /\ UNCHANGED <<ticker, period, df, stock_info>>

Next ==
  \/ \E t \in Tickers, p \in TimePeriod : Request(t, p)
  \/ HistoryRaises
  \/ \E d \in HistoryFrames : HistoryReturns(d)
  \/ CheckEmpty
  \/ \E info \in InfoResults(ticker) : InfoReturns(info)
  \/ InfoRaises
  \/ CalculateIndicators
  \/ PrepareResponse

Spec == Init /\ [][Next]_vars

\* The indicator engine and the response builder on their own: applied to
\* every frame of a wider family, the long pattern series included.
IndicatorInputs == {EmptyFrame} \cup FreeFrames \cup PatternFrames \cup MalformedFrames

InitIndicators ==
  /\ pc = "calc"
  /\ ticker = "AAPL"
  /\ period = "1mo"
  /\ df \in IndicatorInputs
  /\ stock_info = info_fallback(ticker)
  /\ result = NoResult
  /\ log = <<>>

NextIndicators == CalculateIndicators \/ PrepareResponse

SpecIndicators == InitIndicators /\ [][NextIndicators]_vars

----------------------------------------------------------------------------
(* Properties of get_stock_data *)

Called(name) == \E k \in 1..Len(log) : log[k].call = name
CallRaised(name) == \E k \in 1..Len(log) : log[k] = Call(name, TRUE)
CallReturned(name) == \E k \in 1..Len(log) : log[k] = Call(name, FALSE)
FetchedEmpty == CallReturned("history") /\ Empty(df)
StatusIs(code) ==
  /\ result.kind = "error"
  /\ result.exc.type = "HTTPException"
  /\ result.exc.status_code = code

\* C1: when the fetcher returns an empty series the request ends with a 404:
\* the metadata fetch, calculate_indicators and prepare_response are never
\* run, and the 404 is not turned into a 500.
C1_EmptySeriesIsNotFound ==
  FetchedEmpty =>
    /\ pc \in {"check_empty", "done"}
    /\ ~Called("info")
    /\ ~Called("calculate_indicators")
    /\ ~Called("prepare_response")
    /\ pc = "done" => StatusIs(STATUS_NOT_FOUND)

C1_Witness == pc = "done" /\ FetchedEmpty /\ StatusIs(STATUS_NOT_FOUND)

\* C2: for a non-empty series, a failing metadata fetch is not fatal: the
\* request goes on through calculate_indicators and prepare_response and
\* returns a full result whose metadata is the requested ticker, an empty
\* company name and "N/A" for sector and industry.
C2_MetadataFailureNotFatal ==
  (CallRaised("info") /\ WellFormed(df) /\ ~Empty(df)) =>
    /\ pc \in {"calc", "prepare", "done"}
    /\ ~StatusIs(STATUS_SERVER_ERROR) /\ ~StatusIs(STATUS_NOT_FOUND)
    /\ pc = "done" =>
         /\ CallReturned("calculate_indicators")
         /\ CallReturned("prepare_response")
         /\ result.kind = "response"
         /\ DOMAIN result.body = {"metadata", "timeseries", "analysis"}
         /\ result.body.metadata.ticker = ticker
         /\ result.body.metadata.company_name = ""
         /\ result.body.metadata.sector = "N/A"
         /\ result.body.metadata.industry = "N/A"

C2_Witness ==
  /\ pc = "done" /\ CallRaised("info") /\ result.kind = "response"
  /\ result.body.metadata.ticker = ticker
  /\ result.body.metadata.sector = "N/A"

TimeseriesFields ==
  {"dates", "price", "volume", "fifty_ma", "twohundred_ma", "rsi", "vwap"}

CompleteResult(body) ==
  /\ DOMAIN body = {"metadata", "timeseries", "analysis"}
  /\ DOMAIN body.metadata =
       {"ticker", "company_name", "sector", "industry", "data_points",
        "start_date", "end_date"}
  /\ DOMAIN body.timeseries = TimeseriesFields
  /\ DOMAIN body.analysis = {"moving_averages", "rsi", "vwap"}

\* C3: a request ends in exactly one of: a complete result, a 404, a 500.
\* A failure of the price fetch, of calculate_indicators or of
\* prepare_response gives a 500, never a partial result; the 404 is the
\* empty series; no step runs twice.
C3_ThreeOutcomes ==
  /\ pc # "done" => result = NoResult
  /\ pc = "done" =>
       \/ result.kind = "response" /\ CompleteResult(result.body)
       \/ StatusIs(STATUS_NOT_FOUND)
       \/ StatusIs(STATUS_SERVER_ERROR)
  /\ result.kind = "response" =>
       \A k \in 1..Len(log) : log[k].call # "info" => ~log[k].raised
  /\ StatusIs(STATUS_NOT_FOUND) <=> (pc = "done" /\ FetchedEmpty)
  /\ (\/ CallRaised("history")
      \/ CallRaised("calculate_indicators")
      \/ CallRaised("prepare_response")) =>
       (pc = "done" /\ StatusIs(STATUS_SERVER_ERROR))
  /\ \A j, k \in 1..Len(log) : log[j].call = log[k].call => j = k

C3_Witness ==
  /\ pc = "done"
  /\ CallRaised("calculate_indicators")
  /\ StatusIs(STATUS_SERVER_ERROR)

----------------------------------------------------------------------------
(* Properties of the indicator engine and of the response builder *)

IndicatorCols == {"50_MA", "200_MA", "RSI", "VWAP"}
HasIndicators == HasCols(df, IndicatorCols)
IsSeqOfLen(xs, n) == DOMAIN xs = 1..n

\* integer views of the fetched bars
CloseAt(i) == df.cols["Close"][i][1]
TypicalTimes3At(i) ==
  df.cols["High"][i][1] + df.cols["Low"][i][1] + df.cols["Close"][i][1]

\* sum of f(lo..hi), by halves
RECURSIVE SumOver(_, _, _)
SumOver(f(_), lo, hi) ==
  IF lo > hi THEN 0
  ELSE IF lo = hi THEN f(lo)
  ELSE LET mid == (lo + hi) \div 2 IN SumOver(f, lo, mid) + SumOver(f, mid + 1, hi)

\* the float x is exactly num/den (den > 0)
IsQuotient(x, num, den) == IsFinite(x) /\ x[1] * den = x[2] * num

\* C4: for a non-empty series of n bars calculate_indicators yields 50_MA,
\* 200_MA, RSI and VWAP of length n, and prepare_response returns seven
\* timeseries arrays of length n = data_points, element i of each being
\* bar i's value, the last elements being the latest values of the analysis.
C4_Alignment ==
  /\ HasIndicators =>
       /\ NRows(df) >= 1
       /\ \A c \in IndicatorCols : IsSeqOfLen(df.cols[c], NRows(df))
  /\ result.kind = "response" =>
       LET n == NRows(df)
           ts == result.body.timeseries
           an == result.body.analysis
       IN /\ HasIndicators
          /\ result.body.metadata.data_points = n
          /\ \A a \in TimeseriesFields : IsSeqOfLen(ts[a], n)
          /\ \A i \in 1..n :
               /\ ts.dates[i] = strftime(df.index[i])
               /\ ts.price[i] = df.cols["Close"][i]
               /\ ts.volume[i] = df.cols["Volume"][i]
               /\ ts.fifty_ma[i] = df.cols["50_MA"][i]
               /\ ts.twohundred_ma[i] = df.cols["200_MA"][i]
               /\ ts.rsi[i] = df.cols["RSI"][i]
               /\ ts.vwap[i] = df.cols["VWAP"][i]
          /\ \A i, j \in 1..n : i < j => ts.dates[i] # ts.dates[j]
          /\ an.moving_averages.latest_price = ts.price[n]
          /\ an.moving_averages.latest_50ma = ts.fifty_ma[n]
          /\ an.moving_averages.latest_200ma = ts.twohundred_ma[n]
          /\ an.rsi.current_rsi = ts.rsi[n]
          /\ an.vwap.current_vwap = ts.vwap[n]

C4_Witness ==
  /\ result.kind = "response"
  /\ NRows(df) > MA_LONG_WINDOW
  /\ IsSeqOfLen(result.body.timeseries.rsi, NRows(df))
  /\ IsNaN(result.body.timeseries.rsi[1])
  /\ ~IsNaN(result.body.analysis.rsi.current_rsi)

\* C5: for W in {50, 200} and every position i (0-based): the moving average
\* at i is the mean of closes[0..i] when i < W-1 and the mean of
\* closes[i-W+1..i] when i >= W-1; no position is undefined.
MeanOfCloses(x, first, last) ==
  IsQuotient(x, SumOver(LAMBDA k : CloseAt(k + 1), first, last), last - first + 1)

C5_MovingAverage ==
  HasCols(df, {"50_MA", "200_MA"}) =>
    \A W \in {50, 200} :
      LET ma == IF W = 50 THEN df.cols["50_MA"] ELSE df.cols["200_MA"] IN
      \A i \in 0..(NRows(df) - 1) :
        IF i < W - 1 THEN MeanOfCloses(ma[i + 1], 0, i)
        ELSE MeanOfCloses(ma[i + 1], i - W + 1, i)

C5_Witness ==
  /\ HasCols(df, {"50_MA", "200_MA"})
  /\ NRows(df) > 200
  /\ MeanOfCloses(df.cols["200_MA"][201], 1, 200)
  /\ ~MeanOfCloses(df.cols["200_MA"][201], 0, 200)
  /\ MeanOfCloses(df.cols["50_MA"][10], 0, 9)

\* C6: where the volume so far is positive, the VWAP at position i is the
\* sum over bars 0..i of (high + low + close)/3 * volume divided by the sum
\* of volume over bars 0..i, the whole series at the last position; it is
\* anchored at the first bar and never reset.  With no volume so far the
\* quotient is 0/0.
VolumeThrough(i) == SumOver(LAMBDA k : df.cols["Volume"][k], 1, i)
PriceVolumeTimes3Through(i) ==
  SumOver(LAMBDA k : TypicalTimes3At(k) * df.cols["Volume"][k], 1, i)

C6_CumulativeVwap ==
  HasCols(df, {"VWAP"}) =>
    \A i \in 1..NRows(df) :
      IF VolumeThrough(i) > 0
      THEN df.cols["VWAP"][i] = Norm(PriceVolumeTimes3Through(i), 3 * VolumeThrough(i))
      ELSE IsNaN(df.cols["VWAP"][i])

C6_Witness ==
  /\ HasCols(df, {"VWAP"})
  /\ NRows(df) > MA_LONG_WINDOW
  /\ df.cols["Volume"][1] = 0
  /\ df.cols["Volume"][2] # df.cols["Volume"][3]
  /\ df.cols["Close"][1] # df.cols["Close"][2]
  /\ IsFinite(Last(df.cols["VWAP"]))

\* C7: is_golden_cross is true iff the latest 50-MA is strictly greater than
\* the latest 200-MA; equal values give false.
C7_GoldenCross ==
  result.kind = "response" =>
    LET a == Last(df.cols["50_MA"])
        b == Last(df.cols["200_MA"])
        flag == result.body.analysis.moving_averages.is_golden_cross
    IN /\ IsFinite(a) /\ IsFinite(b)
       /\ flag <=> a[1] * b[2] > b[1] * a[2]
       /\ a = b => ~flag

C7_Witness ==
  /\ result.kind = "response"
  /\ result.body.analysis.moving_averages.is_golden_cross
  /\ FGt(Last(df.cols["50_MA"]), Last(df.cols["200_MA"]))

\* C8: wherever the rolling average loss is > 0 and the rolling average gain
\* is >= 0, the RSI lies within [0, 100].
C8_RsiRange ==
  HasCols(df, {"RSI"}) =>
    \A g \in {avg_gains_of(df.cols["Close"], RSI_PERIODS)} :
    \A l \in {avg_losses_of(df.cols["Close"], RSI_PERIODS)} :
      \A i \in 1..NRows(df) :
        (IsFinite(l[i]) /\ l[i][1] > 0 /\ IsFinite(g[i]) /\ g[i][1] >= 0) =>
          LET rsi == df.cols["RSI"][i] IN
            /\ IsFinite(rsi)
            /\ 0 <= rsi[1]
            /\ rsi[1] <= 100 * rsi[2]

C8_Witness ==
  /\ HasCols(df, {"RSI"})
  /\ \E g \in {avg_gains_of(df.cols["Close"], RSI_PERIODS)} :
     \E l \in {avg_losses_of(df.cols["Close"], RSI_PERIODS)} :
       \E i \in 1..NRows(df) :
         /\ FGt(l[i], Zero)
         /\ FGt(g[i], Zero)
         /\ FGt(df.cols["RSI"][i], Zero)
         /\ FLt(df.cols["RSI"][i], ToF(100))

\* C9: the RSI at a position is defined only when its 14-position window
\* holds 14 real day-over-day deltas, i.e. from position 14 on (0-based;
\* position 0 has no delta); every earlier position is undefined.
C9_RsiNeedsFourteenDeltas ==
  HasCols(df, {"RSI"}) =>
    \A i \in 0..(NRows(df) - 1) :
      i - RSI_PERIODS + 1 < 1 => IsNaN(df.cols["RSI"][i + 1])

\* C10: for a series of at most 50 bars the 50-MA and the 200-MA are equal
\* at every position, so is_golden_cross is false and price_above_50ma
\* equals price_above_200ma.
C10_ShortSeriesAveragesAgree ==
  NRows(df) <= 50 =>
    /\ HasCols(df, {"50_MA", "200_MA"}) =>
         \A i \in 1..NRows(df) : df.cols["50_MA"][i] = df.cols["200_MA"][i]
    /\ result.kind = "response" =>
         LET ma == result.body.analysis.moving_averages IN
           /\ ~ma.is_golden_cross
           /\ ma.price_above_50ma = ma.price_above_200ma

C10_Witness ==
  /\ NRows(df) = 50
  /\ result.kind = "response"
  /\ ~result.body.analysis.moving_averages.is_golden_cross
  /\ result.body.analysis.moving_averages.price_above_50ma
  /\ result.body.analysis.moving_averages.price_above_200ma

====
